---- MODULE Spec2Model ----
(***************************************************************************)
(* Model of package winreg (src/winreg.go): a flat set of functions over   *)
(* golang.org/x/sys/windows/registry.  Every function opens a key, makes   *)
(* one typed call on it and closes the handle.                             *)
(*                                                                         *)
(* Go integers are kept at full width as little-endian sequences of 16-bit *)
(* words (uint32/int32: two words, uint64/int64: four words); strings are  *)
(* sequences of code units, 0 being NUL.                                   *)
(***************************************************************************)
EXTENDS Integers, Sequences, FiniteSets, TLC

VARIABLES reg,      \* the registry under root: key path -> [exists, acl, subs, vals]
          handles,  \* ids of the key handles currently open in the process
          last      \* the call made last: function, arguments, returned value and error

vars == <<reg, handles, last>>

----------------------------------------------------------------------------
(* Bounds and input sets *)

MaxHandles == 2

Names == {"x", "y"}
Root == <<>>
KeyPaths == {<<"x">>, <<"z">>, <<"x", "x">>, <<"x", "y">>}
MissingPaths == {<<"y">>}
AllPaths == {Root} \cup KeyPaths \cup MissingPaths
ValuePaths == {<<"x">>, <<"y">>, <<"z">>}
ValueNames == {"a", "b"}

Zero32 == <<0, 0>>
Zero64 == <<0, 0, 0, 0>>
Q123456789012 == <<6676, 48793, 28, 0>>

UInt32s == {Zero32, <<65535, 65535>>}
UInt64s == {Q123456789012, <<65535, 65535, 65535, 65535>>}
Int32s == {<<1, 0>>, <<0, 32768>>}
Int64s == {<<5, 0, 0, 0>>,                    \* 5
           <<65535, 65535, 65535, 65535>>,    \* -1
           <<0, 32768, 0, 0>>,                \* 2^31
           <<5, 0, 1, 0>>,                    \* 2^32 + 5
           <<65535, 32767, 65535, 65535>>}    \* -2^31 - 1
Binaries == {<<>>, <<1, 255>>}
ExpandStrings == {<<37, 97, 37>>, <<97, 0, 98>>}
MultiStrings == {<<>>, <<<<97>>, <<>>>>, <<<<97, 0, 98>>>>}
Defaults == {<<100>>}

\* the inputs of the specification that runs every function of the package
OneName == {"a"}
OneUInt32 == {<<65535, 65535>>}
OneUInt64 == {Q123456789012}
OneInt32 == {<<0, 32768>>}
OneInt64 == {<<5, 0, 1, 0>>}
OneBinary == {<<1, 255>>}
OneExpandString == {<<37, 97, 37>>}
OneMultiString == {<<<<97>>, <<>>>>}

----------------------------------------------------------------------------
(* golang.org/x/sys/windows/registry, as far as the package uses it *)

nil == "nil"
ErrNotExist == "ErrNotExist"
ErrUnexpectedType == "ErrUnexpectedType"
ErrAccessDenied == "ERROR_ACCESS_DENIED"
ErrInvalidHandle == "ERROR_INVALID_HANDLE"
ErrInvalid == "EINVAL"

QUERY_VALUE == {"QUERY_VALUE"}
ENUMERATE_SUB_KEYS == {"ENUMERATE_SUB_KEYS"}
WRITE == {"SET_VALUE", "CREATE_SUB_KEY"}
ALL_ACCESS == {"QUERY_VALUE", "SET_VALUE", "CREATE_SUB_KEY", "ENUMERATE_SUB_KEYS", "DELETE"}

NoValue == [type |-> "NONE", data |-> <<>>]
NoKey == [exists |-> FALSE, acl |-> {}, subs |-> <<>>, vals |-> [n \in ValueNames |-> NoValue]]
NewKey == [exists |-> TRUE, acl |-> ALL_ACCESS, subs |-> <<>>, vals |-> [n \in ValueNames |-> NoValue]]
NoHandle == [id |-> 0, path |-> Root, access |-> {}]

Range(s) == {s[i] : i \in 1..Len(s)}
Parent(p) == SubSeq(p, 1, Len(p) - 1)
Leaf(p) == p[Len(p)]
Remove(s, e) == SelectSeq(s, LAMBDA x : x # e)
HasNul(s) == \E i \in 1..Len(s) : s[i] = 0

NewId(w) == CHOOSE i \in 1..(Cardinality(w.handles) + 1) : i \notin w.handles

\* registry.OpenKey(root, path, access)
OpenKey(w, path, access) ==
    IF ~w.reg[path].exists THEN [w |-> w, k |-> NoHandle, err |-> ErrNotExist]
    ELSE IF ~(access \subseteq w.reg[path].acl)
         THEN [w |-> w, k |-> NoHandle, err |-> ErrAccessDenied]
    ELSE LET id == NewId(w)
         IN [w |-> [w EXCEPT !.handles = @ \cup {id}],
             k |-> [id |-> id, path |-> path, access |-> access],
             err |-> nil]

\* k.Close()
Close(w, k) == [w EXCEPT !.handles = @ \ {k.id}]

\* the check every call on a handle starts with: the handle is open, the key
\* is still there and the handle was opened with the right the call needs
KeyErr(w, k, right) ==
    IF k.id \notin w.handles THEN ErrInvalidHandle
    ELSE IF ~w.reg[k.path].exists THEN ErrNotExist
    ELSE IF right \notin k.access THEN ErrAccessDenied
    ELSE nil

\* the type and data of a value, as RegQueryValueEx reports them
getValue(w, k, name) ==
    LET e == KeyErr(w, k, "QUERY_VALUE")
        v == w.reg[k.path].vals[name]
    IN IF e # nil THEN [val |-> NoValue, err |-> e]
       ELSE IF v.type = "NONE" THEN [val |-> NoValue, err |-> ErrNotExist]
       ELSE [val |-> v, err |-> nil]

\* RegSetValueEx
setValue(w, k, name, type, data) ==
    LET e == KeyErr(w, k, "SET_VALUE")
    IN IF e # nil THEN [w |-> w, err |-> e]
       ELSE [w |-> [w EXCEPT !.reg[k.path].vals[name] = [type |-> type, data |-> data]],
             err |-> nil]

\* a Get call that accepts the value types in `types`: the data as stored
getTyped(w, k, name, types, zero) ==
    LET g == getValue(w, k, name)
    IN IF g.err # nil THEN [val |-> zero, err |-> g.err]
       ELSE IF g.val.type \notin types THEN [val |-> zero, err |-> ErrUnexpectedType]
       ELSE [val |-> g.val.data, err |-> nil]

\* syscall.UTF16FromString / UTF16ToString: NUL-terminated, cut at the first NUL
RECURSIVE UpToNul(_)
UpToNul(d) == IF d = <<>> \/ Head(d) = 0 THEN <<>> ELSE <<Head(d)>> \o UpToNul(Tail(d))

\* SetStringsValue: each string followed by NUL, then a closing NUL
RECURSIVE JoinNul(_)
JoinNul(ss) == IF ss = <<>> THEN <<>> ELSE Head(ss) \o <<0>> \o JoinNul(Tail(ss))

\* GetStringsValue: drop the closing NUL, then one string per remaining NUL
RECURSIVE SplitNul(_, _)
SplitNul(p, cur) ==
    IF p = <<>> THEN <<>>
    ELSE IF Head(p) = 0 THEN <<cur>> \o SplitNul(Tail(p), <<>>)
    ELSE SplitNul(Tail(p), Append(cur, Head(p)))

DecodeStrings(d) ==
    IF d = <<>> THEN <<>>
    ELSE SplitNul(IF d[Len(d)] = 0 THEN SubSeq(d, 1, Len(d) - 1) ELSE d, <<>>)

GetDWordValue(w, k, name) == getTyped(w, k, name, {"DWORD"}, Zero32)
GetQWordValue(w, k, name) == getTyped(w, k, name, {"QWORD"}, Zero64)
GetIntValue(w, k, name) == getTyped(w, k, name, {"DWORD"}, Zero32)
GetBinaryValue(w, k, name) == getTyped(w, k, name, {"BINARY"}, <<>>)
GetStringValue(w, k, name) ==
    LET g == getTyped(w, k, name, {"SZ", "EXPAND_SZ"}, <<>>)
    IN [val |-> UpToNul(g.val), err |-> g.err]
GetExpandStringValue(w, k, name) ==
    LET g == getTyped(w, k, name, {"EXPAND_SZ"}, <<>>)
    IN [val |-> UpToNul(g.val), err |-> g.err]
GetStringsValue(w, k, name) ==
    LET g == getTyped(w, k, name, {"MULTI_SZ"}, <<>>)
    IN [val |-> DecodeStrings(g.val), err |-> g.err]

SetDWordValue(w, k, name, data) == setValue(w, k, name, "DWORD", data)
SetQWordValue(w, k, name, data) == setValue(w, k, name, "QWORD", data)
SetIntValue(w, k, name, data) == setValue(w, k, name, "DWORD", data)
SetBinaryValue(w, k, name, data) == setValue(w, k, name, "BINARY", data)
SetExpandStringValue(w, k, name, data) ==
    IF HasNul(data) THEN [w |-> w, err |-> ErrInvalid]
    ELSE setValue(w, k, name, "EXPAND_SZ", data \o <<0>>)
SetStringsValue(w, k, name, data) ==
    IF \E i \in 1..Len(data) : HasNul(data[i]) THEN [w |-> w, err |-> ErrInvalid]
    ELSE setValue(w, k, name, "MULTI_SZ", JoinNul(data) \o <<0>>)

\* k.DeleteValue(name)
KeyDeleteValue(w, k, name) ==
    LET e == KeyErr(w, k, "SET_VALUE")
    IN IF e # nil THEN [w |-> w, err |-> e]
       ELSE IF w.reg[k.path].vals[name].type = "NONE" THEN [w |-> w, err |-> ErrNotExist]
       ELSE [w |-> [w EXCEPT !.reg[k.path].vals[name] = NoValue], err |-> nil]

\* RegDeleteKey on the key at path: the key must exist, grant DELETE and have
\* no subkeys; the key goes with its values
regDeleteKey(w, path) ==
    IF path = Root \/ ~w.reg[path].exists THEN [w |-> w, err |-> ErrNotExist]
    ELSE IF "DELETE" \notin w.reg[path].acl \/ w.reg[path].subs # <<>>
         THEN [w |-> w, err |-> ErrAccessDenied]
    ELSE [w |-> [w EXCEPT !.reg = [@ EXCEPT ![path] = NoKey,
                                            ![Parent(path)].subs = Remove(@, Leaf(path))]],
          err |-> nil]

\* k.DeleteKey(sub) and registry.DeleteKey(root, path)
KeyDeleteKey(w, k, sub) ==
    IF k.id \notin w.handles THEN [w |-> w, err |-> ErrInvalidHandle]
    ELSE regDeleteKey(w, k.path \o <<sub>>)

\* the first n names of a list, all of them when n <= 0
FirstN(names, n) == IF n <= 0 \/ n >= Len(names) THEN names ELSE SubSeq(names, 1, n)

\* k.ReadSubKeyNames(n)
ReadSubKeyNames(w, k, n) ==
    LET e == KeyErr(w, k, "ENUMERATE_SUB_KEYS")
    IN IF e # nil THEN [val |-> <<>>, err |-> e]
       ELSE [val |-> FirstN(w.reg[k.path].subs, n), err |-> nil]

\* the names of the values of a key, in name order
ValueList(vals) ==
    (IF vals["a"].type # "NONE" THEN <<"a">> ELSE <<>>)
        \o (IF vals["b"].type # "NONE" THEN <<"b">> ELSE <<>>)

\* k.ReadValueNames(n)
ReadValueNames(w, k, n) ==
    LET e == KeyErr(w, k, "QUERY_VALUE")
    IN IF e # nil THEN [val |-> <<>>, err |-> e]
       ELSE [val |-> FirstN(ValueList(w.reg[k.path].vals), n), err |-> nil]

\* RegCreateKeyEx makes the missing keys of the path, outermost first
RECURSIVE MakeKeys(_, _)
MakeKeys(r, path) ==
    IF path = Root \/ r[path].exists THEN r
    ELSE [MakeKeys(r, Parent(path)) EXCEPT ![path] = NewKey,
                                           ![Parent(path)].subs = Append(@, Leaf(path))]

RECURSIVE CanMake(_, _)
CanMake(r, path) ==
    IF r[path].exists THEN "CREATE_SUB_KEY" \in r[path].acl ELSE CanMake(r, Parent(path))

\* registry.CreateKey(root, path, access)
RegCreateKey(w, path, access) ==
    IF (w.reg[path].exists /\ ~(access \subseteq w.reg[path].acl))
          \/ (~w.reg[path].exists /\ ~CanMake(w.reg, path))
    THEN [w |-> w, k |-> NoHandle, err |-> ErrAccessDenied]
    ELSE LET id == NewId(w)
         IN [w |-> [reg |-> MakeKeys(w.reg, path), handles |-> w.handles \cup {id}],
             k |-> [id |-> id, path |-> path, access |-> access],
             err |-> nil]

----------------------------------------------------------------------------
(* Package winreg.  A function takes the world w = [reg, handles] and       *)
(* returns the world after the call with the value and error it returns;   *)
(* `defer k.Close()` closes the handle on every return after it.           *)

Return(w, ret, err) == [w |-> w, ret |-> ret, err |-> err]

\* int32(data) for an int64: the low 32 bits
Int32Of(d) == <<d[1], d[2]>>

\* int64(uint32(value)): zero extension
Int64Of_ZeroExtend(v) == v \o <<0, 0>>

\* int64(value) for an int32: sign extension
Int64Of(v) == IF v[2] >= 32768 THEN v \o <<65535, 65535>> ELSE v \o <<0, 0>>

ReadDWordValue(w, keyPath, valueName) ==
    LET o == OpenKey(w, keyPath, QUERY_VALUE)
    IN IF o.err # nil THEN Return(w, Zero32, o.err)
       ELSE LET g == GetDWordValue(o.w, o.k, valueName)
            IN IF g.err # nil THEN Return(Close(o.w, o.k), Zero32, g.err)
               ELSE Return(Close(o.w, o.k), g.val, nil)

\* WriteDWordValue returning nil when the key cannot be opened
WriteDWordValue_IgnoreOpen(w, keyPath, valueName, data) ==
    LET o == OpenKey(w, keyPath, WRITE)
    IN IF o.err # nil THEN Return(w, <<>>, nil)
       ELSE LET s == SetDWordValue(o.w, o.k, valueName, data)
            IN IF s.err # nil THEN Return(Close(s.w, o.k), <<>>, s.err)
               ELSE Return(Close(s.w, o.k), <<>>, nil)

WriteDWordValue(w, keyPath, valueName, data) ==
    LET o == OpenKey(w, keyPath, WRITE)
    IN IF o.err # nil THEN Return(w, <<>>, o.err)
       ELSE LET s == SetDWordValue(o.w, o.k, valueName, data)
            IN IF s.err # nil THEN Return(Close(s.w, o.k), <<>>, s.err)
               ELSE Return(Close(s.w, o.k), <<>>, nil)

\* ReadBinaryValue dropping the error of GetBinaryValue
ReadBinaryValue_NoErr(w, keyPath, valueName) ==
    LET o == OpenKey(w, keyPath, QUERY_VALUE)
    IN IF o.err # nil THEN Return(w, <<>>, o.err)
       ELSE LET g == GetBinaryValue(o.w, o.k, valueName)
            IN Return(Close(o.w, o.k), g.val, nil)

ReadBinaryValue(w, keyPath, valueName) ==
    LET o == OpenKey(w, keyPath, QUERY_VALUE)
    IN IF o.err # nil THEN Return(w, <<>>, o.err)
       ELSE LET g == GetBinaryValue(o.w, o.k, valueName)
            IN IF g.err # nil THEN Return(Close(o.w, o.k), <<>>, g.err)
               ELSE Return(Close(o.w, o.k), g.val, nil)

WriteBinaryValue(w, keyPath, valueName, data) ==
    LET o == OpenKey(w, keyPath, WRITE)
    IN IF o.err # nil THEN Return(w, <<>>, o.err)
       ELSE LET s == SetBinaryValue(o.w, o.k, valueName, data)
            IN IF s.err # nil THEN Return(Close(s.w, o.k), <<>>, s.err)
               ELSE Return(Close(s.w, o.k), <<>>, nil)

\* DeleteValue dropping the error of k.DeleteValue
DeleteValue_IgnoreErr(w, keyPath, valueName) ==
    LET o == OpenKey(w, keyPath, WRITE)
    IN IF o.err # nil THEN Return(w, <<>>, o.err)
       ELSE LET s == KeyDeleteValue(o.w, o.k, valueName)
            IN Return(Close(s.w, o.k), <<>>, nil)

DeleteValue(w, keyPath, valueName) ==
    LET o == OpenKey(w, keyPath, WRITE)
    IN IF o.err # nil THEN Return(w, <<>>, o.err)
       ELSE LET s == KeyDeleteValue(o.w, o.k, valueName)
            IN IF s.err # nil THEN Return(Close(s.w, o.k), <<>>, s.err)
               ELSE Return(Close(s.w, o.k), <<>>, nil)

DeleteSubKey(w, keyPath, subKeyName) ==
    LET o == OpenKey(w, keyPath, WRITE)
    IN IF o.err # nil THEN Return(w, <<>>, o.err)
       ELSE LET s == KeyDeleteKey(o.w, o.k, subKeyName)
            IN IF s.err # nil THEN Return(Close(s.w, o.k), <<>>, s.err)
               ELSE Return(Close(s.w, o.k), <<>>, nil)

\* KeyExists without its k.Close()
KeyExists_NoClose(w, keyPath) ==
    LET o == OpenKey(w, keyPath, QUERY_VALUE)
    IN IF o.err # nil THEN Return(w, FALSE, nil)
       ELSE Return(o.w, TRUE, nil)

KeyExists(w, keyPath) ==
    LET o == OpenKey(w, keyPath, QUERY_VALUE)
    IN IF o.err # nil THEN Return(w, FALSE, nil)
       ELSE Return(Close(o.w, o.k), TRUE, nil)

ValueExists(w, keyPath, valueName) ==
    LET o == OpenKey(w, keyPath, QUERY_VALUE)
    IN IF o.err # nil THEN Return(w, FALSE, nil)
       ELSE LET g == GetStringValue(o.w, o.k, valueName)
            IN Return(Close(o.w, o.k), g.err = nil, nil)

\* EnumerateSubKeys asking for one name, ReadSubKeyNames(1)
EnumerateSubKeys_First(w, keyPath) ==
    LET o == OpenKey(w, keyPath, ENUMERATE_SUB_KEYS)
    IN IF o.err # nil THEN Return(w, <<>>, o.err)
       ELSE LET g == ReadSubKeyNames(o.w, o.k, 1)
            IN IF g.err # nil THEN Return(Close(o.w, o.k), <<>>, g.err)
               ELSE Return(Close(o.w, o.k), g.val, nil)

EnumerateSubKeys(w, keyPath) ==
    LET o == OpenKey(w, keyPath, ENUMERATE_SUB_KEYS)
    IN IF o.err # nil THEN Return(w, <<>>, o.err)
       ELSE LET g == ReadSubKeyNames(o.w, o.k, -1)
            IN IF g.err # nil THEN Return(Close(o.w, o.k), <<>>, g.err)
               ELSE Return(Close(o.w, o.k), g.val, nil)

EnumerateValues(w, keyPath) ==
    LET o == OpenKey(w, keyPath, QUERY_VALUE)
    IN IF o.err # nil THEN Return(w, <<>>, o.err)
       ELSE LET g == ReadValueNames(o.w, o.k, -1)
            IN IF g.err # nil THEN Return(Close(o.w, o.k), <<>>, g.err)
               ELSE Return(Close(o.w, o.k), g.val, nil)

CreateKey(w, keyPath) ==
    LET c == RegCreateKey(w, keyPath, ALL_ACCESS)
    IN Return(c.w, c.k, c.err)

ReadStringValueWithDefault(w, keyPath, valueName, defaultValue) ==
    LET o == OpenKey(w, keyPath, QUERY_VALUE)
    IN IF o.err # nil THEN Return(w, defaultValue, nil)
       ELSE LET g == GetStringValue(o.w, o.k, valueName)
            IN IF g.err # nil THEN Return(Close(o.w, o.k), defaultValue, nil)
               ELSE Return(Close(o.w, o.k), g.val, nil)

ReadMultiStringValue(w, keyPath, valueName) ==
    LET o == OpenKey(w, keyPath, QUERY_VALUE)
    IN IF o.err # nil THEN Return(w, <<>>, o.err)
       ELSE LET g == GetStringsValue(o.w, o.k, valueName)
            IN IF g.err # nil THEN Return(Close(o.w, o.k), <<>>, g.err)
               ELSE Return(Close(o.w, o.k), g.val, nil)

WriteMultiStringValue(w, keyPath, valueName, data) ==
    LET o == OpenKey(w, keyPath, WRITE)
    IN IF o.err # nil THEN Return(w, <<>>, o.err)
       ELSE LET s == SetStringsValue(o.w, o.k, valueName, data)
            IN IF s.err # nil THEN Return(Close(s.w, o.k), <<>>, s.err)
               ELSE Return(Close(s.w, o.k), <<>>, nil)

ReadQWordValue(w, keyPath, valueName) ==
    LET o == OpenKey(w, keyPath, QUERY_VALUE)
    IN IF o.err # nil THEN Return(w, Zero64, o.err)
       ELSE LET g == GetQWordValue(o.w, o.k, valueName)
            IN IF g.err # nil THEN Return(Close(o.w, o.k), Zero64, g.err)
               ELSE Return(Close(o.w, o.k), g.val, nil)

\* WriteQWordValue passing uint64(uint32(data))
WriteQWordValue_Low32(w, keyPath, valueName, data) ==
    LET o == OpenKey(w, keyPath, WRITE)
    IN IF o.err # nil THEN Return(w, <<>>, o.err)
       ELSE LET s == SetQWordValue(o.w, o.k, valueName, <<data[1], data[2], 0, 0>>)
            IN IF s.err # nil THEN Return(Close(s.w, o.k), <<>>, s.err)
               ELSE Return(Close(s.w, o.k), <<>>, nil)

WriteQWordValue(w, keyPath, valueName, data) ==
    LET o == OpenKey(w, keyPath, WRITE)
    IN IF o.err # nil THEN Return(w, <<>>, o.err)
       ELSE LET s == SetQWordValue(o.w, o.k, valueName, data)
            IN IF s.err # nil THEN Return(Close(s.w, o.k), <<>>, s.err)
               ELSE Return(Close(s.w, o.k), <<>>, nil)

ReadExpandStringValue(w, keyPath, valueName) ==
    LET o == OpenKey(w, keyPath, QUERY_VALUE)
    IN IF o.err # nil THEN Return(w, <<>>, o.err)
       ELSE LET g == GetExpandStringValue(o.w, o.k, valueName)
            IN IF g.err # nil THEN Return(Close(o.w, o.k), <<>>, g.err)
               ELSE Return(Close(o.w, o.k), g.val, nil)

WriteExpandStringValue(w, keyPath, valueName, data) ==
    LET o == OpenKey(w, keyPath, WRITE)
    IN IF o.err # nil THEN Return(w, <<>>, o.err)
       ELSE LET s == SetExpandStringValue(o.w, o.k, valueName, data)
            IN IF s.err # nil THEN Return(Close(s.w, o.k), <<>>, s.err)
               ELSE Return(Close(s.w, o.k), <<>>, nil)

ReadInt32Value(w, keyPath, valueName) ==
    LET o == OpenKey(w, keyPath, QUERY_VALUE)
    IN IF o.err # nil THEN Return(w, Zero32, o.err)
       ELSE LET g == GetIntValue(o.w, o.k, valueName)
            IN IF g.err # nil THEN Return(Close(o.w, o.k), Zero32, g.err)
               ELSE Return(Close(o.w, o.k), g.val, nil)

WriteInt32Value(w, keyPath, valueName, data) ==
    LET o == OpenKey(w, keyPath, WRITE)
    IN IF o.err # nil THEN Return(w, <<>>, o.err)
       ELSE LET s == SetIntValue(o.w, o.k, valueName, data)
            IN IF s.err # nil THEN Return(Close(s.w, o.k), <<>>, s.err)
               ELSE Return(Close(s.w, o.k), <<>>, nil)

ReadInt64Value(w, keyPath, valueName) ==
    LET o == OpenKey(w, keyPath, QUERY_VALUE)
    IN IF o.err # nil THEN Return(w, Zero64, o.err)
       ELSE LET g == GetIntValue(o.w, o.k, valueName)
            IN IF g.err # nil THEN Return(Close(o.w, o.k), Zero64, g.err)
               ELSE Return(Close(o.w, o.k), Int64Of(g.val), nil)

WriteInt64Value(w, keyPath, valueName, data) ==
    LET o == OpenKey(w, keyPath, WRITE)
    IN IF o.err # nil THEN Return(w, <<>>, o.err)
       ELSE LET s == SetIntValue(o.w, o.k, valueName, Int32Of(data))
            IN IF s.err # nil THEN Return(Close(s.w, o.k), <<>>, s.err)
               ELSE Return(Close(s.w, o.k), <<>>, nil)

\* DeleteKey dropping the error of registry.DeleteKey
DeleteKey_IgnoreErr(w, keyPath) ==
    LET d == regDeleteKey(w, keyPath)
    IN Return(d.w, <<>>, nil)

IsUnder(q, path) == Len(q) >= Len(path) /\ SubSeq(q, 1, Len(path)) = path

\* DeleteKey deleting the subkeys of the key before the key
DeleteKey_Recursive(w, keyPath) ==
    IF ~w.reg[keyPath].exists \/ "DELETE" \notin w.reg[keyPath].acl
    THEN Return(w, <<>>, regDeleteKey(w, keyPath).err)
    ELSE Return([w EXCEPT !.reg = [q \in AllPaths |->
                     IF IsUnder(q, keyPath) THEN NoKey
                     ELSE IF q = Parent(keyPath)
                          THEN [w.reg[q] EXCEPT !.subs = Remove(@, Leaf(keyPath))]
                     ELSE w.reg[q]]],
                <<>>, nil)

DeleteKey(w, keyPath) ==
    LET d == regDeleteKey(w, keyPath)
    IN Return(d.w, <<>>, d.err)

----------------------------------------------------------------------------
(* The state machine: one action per function of the package *)

World == [reg |-> reg, handles |-> handles]

Call(op, keyPath, valueName, data, r) ==
    /\ reg' = r.w.reg
    /\ handles' = r.w.handles
    /\ last' = [op |-> op, keyPath |-> keyPath, valueName |-> valueName,
                data |-> data, ret |-> r.ret, err |-> r.err]

\* the values found under key x when the program starts
InitValues == {NoValue,
               [type |-> "SZ", data |-> <<97, 0>>],
               [type |-> "DWORD", data |-> <<1, 0>>]}

\* key z holds a value and grants the program no access
Init ==
    /\ \E v \in InitValues :
          reg = [p \in AllPaths |->
                    IF p = Root THEN [NewKey EXCEPT !.subs = <<"x", "z">>]
                    ELSE IF p = <<"x">> THEN [NewKey EXCEPT !.vals["a"] = v]
                    ELSE IF p = <<"z">>
                         THEN [NewKey EXCEPT !.acl = {},
                                             !.vals["a"] = [type |-> "SZ", data |-> <<97, 0>>]]
                    ELSE NoKey]
    /\ handles = {}
    /\ last = [op |-> "none", keyPath |-> Root, valueName |-> "", data |-> <<>>,
               ret |-> <<>>, err |-> nil]

DoReadDWordValue(N) ==
    \E p \in ValuePaths, n \in N :
        Call("ReadDWordValue", p, n, <<>>, ReadDWordValue(World, p, n))
DoWriteDWordValue(N, D) ==
    \E p \in ValuePaths, n \in N, d \in D :
        Call("WriteDWordValue", p, n, d, WriteDWordValue(World, p, n, d))
DoReadBinaryValue(N) ==
    \E p \in ValuePaths, n \in N :
        Call("ReadBinaryValue", p, n, <<>>, ReadBinaryValue(World, p, n))
DoWriteBinaryValue(N, D) ==
    \E p \in ValuePaths, n \in N, d \in D :
        Call("WriteBinaryValue", p, n, d, WriteBinaryValue(World, p, n, d))
DoDeleteValue(N) ==
    \E p \in ValuePaths, n \in N :
        Call("DeleteValue", p, n, <<>>, DeleteValue(World, p, n))
DoDeleteSubKey ==
    \E p \in AllPaths, n \in Names :
        /\ p \o <<n>> \in AllPaths
        /\ Call("DeleteSubKey", p, n, <<>>, DeleteSubKey(World, p, n))
DoKeyExists ==
    \E p \in AllPaths : Call("KeyExists", p, "", <<>>, KeyExists(World, p))
DoValueExists(N) ==
    \E p \in ValuePaths, n \in N :
        Call("ValueExists", p, n, <<>>, ValueExists(World, p, n))
DoEnumerateSubKeys ==
    \E p \in AllPaths : Call("EnumerateSubKeys", p, "", <<>>, EnumerateSubKeys(World, p))
DoEnumerateValues ==
    \E p \in ValuePaths : Call("EnumerateValues", p, "", <<>>, EnumerateValues(World, p))
DoCreateKey ==
    /\ Cardinality(handles) < MaxHandles
    /\ \E p \in KeyPaths : Call("CreateKey", p, "", <<>>, CreateKey(World, p))
DoReadStringValueWithDefault(N) ==
    \E p \in ValuePaths, n \in N, d \in Defaults :
        Call("ReadStringValueWithDefault", p, n, d, ReadStringValueWithDefault(World, p, n, d))
DoReadMultiStringValue(N) ==
    \E p \in ValuePaths, n \in N :
        Call("ReadMultiStringValue", p, n, <<>>, ReadMultiStringValue(World, p, n))
DoWriteMultiStringValue(N, D) ==
    \E p \in ValuePaths, n \in N, d \in D :
        Call("WriteMultiStringValue", p, n, d, WriteMultiStringValue(World, p, n, d))
DoReadQWordValue(N) ==
    \E p \in ValuePaths, n \in N :
        Call("ReadQWordValue", p, n, <<>>, ReadQWordValue(World, p, n))
DoWriteQWordValue(N, D) ==
    \E p \in ValuePaths, n \in N, d \in D :
        Call("WriteQWordValue", p, n, d, WriteQWordValue(World, p, n, d))
DoReadExpandStringValue(N) ==
    \E p \in ValuePaths, n \in N :
        Call("ReadExpandStringValue", p, n, <<>>, ReadExpandStringValue(World, p, n))
DoWriteExpandStringValue(N, D) ==
    \E p \in ValuePaths, n \in N, d \in D :
        Call("WriteExpandStringValue", p, n, d, WriteExpandStringValue(World, p, n, d))
DoReadInt32Value(N) ==
    \E p \in ValuePaths, n \in N :
        Call("ReadInt32Value", p, n, <<>>, ReadInt32Value(World, p, n))
DoWriteInt32Value(N, D) ==
    \E p \in ValuePaths, n \in N, d \in D :
        Call("WriteInt32Value", p, n, d, WriteInt32Value(World, p, n, d))
DoReadInt64Value(N) ==
    \E p \in ValuePaths, n \in N :
        Call("ReadInt64Value", p, n, <<>>, ReadInt64Value(World, p, n))
DoWriteInt64Value(N, D) ==
    \E p \in ValuePaths, n \in N, d \in D :
        Call("WriteInt64Value", p, n, d, WriteInt64Value(World, p, n, d))
DoDeleteKey ==
    \E p \in KeyPaths \cup MissingPaths : Call("DeleteKey", p, "", <<>>, DeleteKey(World, p))

\* every function of the package, on one value name and one datum per type
Next ==
    \/ DoReadDWordValue(OneName) \/ DoWriteDWordValue(OneName, OneUInt32)
    \/ DoReadBinaryValue(OneName) \/ DoWriteBinaryValue(OneName, OneBinary)
    \/ DoDeleteValue(OneName) \/ DoDeleteSubKey
    \/ DoKeyExists \/ DoValueExists(OneName)
    \/ DoEnumerateSubKeys \/ DoEnumerateValues
    \/ DoCreateKey
    \/ DoReadStringValueWithDefault(OneName)
    \/ DoReadMultiStringValue(OneName) \/ DoWriteMultiStringValue(OneName, OneMultiString)
    \/ DoReadQWordValue(OneName) \/ DoWriteQWordValue(OneName, OneUInt64)
    \/ DoReadExpandStringValue(OneName) \/ DoWriteExpandStringValue(OneName, OneExpandString)
    \/ DoReadInt32Value(OneName) \/ DoWriteInt32Value(OneName, OneInt32)
    \/ DoReadInt64Value(OneName) \/ DoWriteInt64Value(OneName, OneInt64)
    \/ DoDeleteKey

Spec == Init /\ [][Next]_vars

\* the functions on values, on two value names and the full input sets
NextValues ==
    \/ DoReadDWordValue(ValueNames) \/ DoWriteDWordValue(ValueNames, UInt32s)
    \/ DoReadBinaryValue(ValueNames) \/ DoWriteBinaryValue(ValueNames, Binaries)
    \/ DoDeleteValue(ValueNames)
    \/ DoValueExists(ValueNames)
    \/ DoEnumerateValues
    \/ DoReadStringValueWithDefault(ValueNames)
    \/ DoReadMultiStringValue(ValueNames) \/ DoWriteMultiStringValue(ValueNames, MultiStrings)
    \/ DoReadQWordValue(ValueNames) \/ DoWriteQWordValue(ValueNames, UInt64s)
    \/ DoReadExpandStringValue(ValueNames) \/ DoWriteExpandStringValue(ValueNames, ExpandStrings)
    \/ DoReadInt32Value(ValueNames) \/ DoWriteInt32Value(ValueNames, Int32s)
    \/ DoReadInt64Value(ValueNames) \/ DoWriteInt64Value(ValueNames, Int64s)

SpecValues == Init /\ [][NextValues]_vars

----------------------------------------------------------------------------
(* Properties *)

WorldOf(r, h) == [reg |-> r, handles |-> h]

\* the key at p exists and grants the program access
CanOpen(r, p) == r[p].exists /\ r[p].acl # {}

\* the error OpenKey reports for a key that cannot be opened
OpenFailure(r, p) == IF r[p].exists THEN ErrAccessDenied ELSE ErrNotExist

\* the names of the keys that exist directly under p
ChildNames(r, p) == {Leaf(q) : q \in {c \in AllPaths : c # Root /\ Parent(c) = p /\ r[c].exists}}

SameTarget == last'.keyPath = last.keyPath /\ last'.valueName = last.valueName

TypedReaders == {"ReadDWordValue", "ReadQWordValue", "ReadBinaryValue", "ReadMultiStringValue",
                 "ReadExpandStringValue", "ReadInt32Value", "ReadInt64Value"}
TypedWriters == {"WriteDWordValue", "WriteQWordValue", "WriteBinaryValue", "WriteMultiStringValue",
                 "WriteExpandStringValue", "WriteInt32Value", "WriteInt64Value"}
Enumerators == {"EnumerateSubKeys", "EnumerateValues"}

RoundTrip(writer, reader) ==
    (last.op = writer /\ last.err = nil /\ last'.op = reader /\ SameTarget)
        => (last'.err = nil /\ last'.ret = last.data)

\* C2: a successful typed write followed by the matching typed read of the
\* same value returns the written value and a nil error, for DWORD, QWORD,
\* binary, multi-string and expandable string.
C2_RoundTrip ==
    [][/\ RoundTrip("WriteDWordValue", "ReadDWordValue")
       /\ RoundTrip("WriteQWordValue", "ReadQWordValue")
       /\ RoundTrip("WriteBinaryValue", "ReadBinaryValue")
       /\ RoundTrip("WriteMultiStringValue", "ReadMultiStringValue")
       /\ RoundTrip("WriteExpandStringValue", "ReadExpandStringValue")]_vars

\* QWORD 123456789012 was read back
C2_Witness ==
    /\ last.op = "ReadQWordValue"
    /\ last.err = nil
    /\ last.ret = Q123456789012

ValueAbsent(r, p, n) == r[p].exists /\ r[p].vals[n].type = "NONE"

\* C3: on an existing key, a typed reader returns a non-nil error for a value
\* name that is not present, and ReadStringValueWithDefault returns the
\* default with a nil error.
C3_AbsentValue ==
    /\ (last.op \in TypedReaders /\ ValueAbsent(reg, last.keyPath, last.valueName))
          => last.err # nil
    /\ (last.op = "ReadStringValueWithDefault"
            /\ ValueAbsent(reg, last.keyPath, last.valueName))
          => (last.err = nil /\ last.ret = last.data)

\* a typed reader found no value b under the existing key x
C3_Witness ==
    /\ last.op = "ReadBinaryValue"
    /\ last.keyPath = <<"x">>
    /\ ValueAbsent(reg, <<"x">>, last.valueName)
    /\ last.err = ErrNotExist

\* C4: when the key cannot be opened, readers, writers, enumerators,
\* DeleteValue and DeleteSubKey return the open failure and change nothing;
\* ReadStringValueWithDefault returns the default with a nil error;
\* KeyExists and ValueExists return false.
C4_OpenFailure ==
    [][~CanOpen(reg, last'.keyPath) =>
          /\ last'.op \in TypedReaders \cup TypedWriters \cup Enumerators
                            \cup {"DeleteValue", "DeleteSubKey"}
                => /\ last'.err = OpenFailure(reg, last'.keyPath)
                   /\ reg' = reg
                   /\ handles' = handles
          /\ last'.op = "ReadStringValueWithDefault"
                => (last'.err = nil /\ last'.ret = last'.data /\ reg' = reg)
          /\ last'.op \in {"KeyExists", "ValueExists"}
                => (last'.ret = FALSE /\ reg' = reg)]_vars

\* a writer was refused the key z, which grants no access
C4_Witness ==
    /\ last.op = "WriteDWordValue"
    /\ last.keyPath = <<"z">>
    /\ last.err = ErrAccessDenied

\* C5: KeyExists is true right after a successful CreateKey of the path, and
\* false after the key was deleted with DeleteKey or DeleteSubKey, until the
\* key is created again.
C5_KeyExists ==
    [][/\ (last.op = "CreateKey" /\ last.err = nil /\ last'.op = "KeyExists"
              /\ last'.keyPath = last.keyPath) => last'.ret = TRUE
       /\ (last'.op = "DeleteKey" /\ last'.err = nil) => ~reg'[last'.keyPath].exists
       /\ (last'.op = "DeleteSubKey" /\ last'.err = nil)
              => ~reg'[last'.keyPath \o <<last'.valueName>>].exists
       /\ \A p \in AllPaths :
              (~reg[p].exists /\ reg'[p].exists) => last'.op = "CreateKey"
       /\ (last'.op = "KeyExists" /\ ~reg[last'.keyPath].exists) => last'.ret = FALSE]_vars

\* KeyExists found the key x\y, which only CreateKey can have made
C5_Witness ==
    /\ last.op = "KeyExists"
    /\ last.keyPath = <<"x", "y">>
    /\ last.ret = TRUE

ListedValues(r, h, p) == Range(EnumerateValues(WorldOf(r, h), p).ret)

\* C6: under a key that can be opened, DeleteValue of a name that is not
\* present returns a non-nil error and changes no value; DeleteValue of a
\* present name returns nil, and EnumerateValues then no longer lists the
\* name and still lists every other name it listed before.
C6_DeleteValue ==
    [][(last'.op = "DeleteValue" /\ CanOpen(reg, last'.keyPath)) =>
          LET p == last'.keyPath
              n == last'.valueName
          IN IF reg[p].vals[n].type = "NONE"
             THEN last'.err # nil /\ reg' = reg
             ELSE /\ last'.err = nil
                  /\ n \notin ListedValues(reg', handles', p)
                  /\ ListedValues(reg', handles', p) = ListedValues(reg, handles, p) \ {n}
                  /\ \A m \in ValueNames \ {n} : reg'[p].vals[m] = reg[p].vals[m]]_vars

\* value a of key x was deleted and value b is still there
C6_Witness ==
    /\ last.op = "DeleteValue"
    /\ last.keyPath = <<"x">>
    /\ last.valueName = "a"
    /\ last.err = nil
    /\ reg[<<"x">>].vals["b"].type # "NONE"

\* C7: EnumerateSubKeys of a key that can be opened returns, with a nil
\* error, each existing child key's name exactly once and no other name.
C7_EnumerateSubKeys ==
    (last.op = "EnumerateSubKeys" /\ CanOpen(reg, last.keyPath)) =>
        /\ last.err = nil
        /\ Range(last.ret) = ChildNames(reg, last.keyPath)
        /\ Len(last.ret) = Cardinality(ChildNames(reg, last.keyPath))

\* both children created under x were listed
C7_Witness ==
    /\ last.op = "EnumerateSubKeys"
    /\ last.keyPath = <<"x">>
    /\ last.err = nil
    /\ Range(last.ret) = {"x", "y"}

\* C8: ValueExists returns true exactly when the key can be opened and a
\* value of that name, of whatever type, exists under it.
C8_ValueExists ==
    last.op = "ValueExists" =>
        last.ret = (CanOpen(reg, last.keyPath)
                      /\ reg[last.keyPath].vals[last.valueName].type # "NONE")

\* the key a DeleteKey or DeleteSubKey call names
DeleteTarget(l) ==
    IF l.op = "DeleteSubKey" THEN l.keyPath \o <<l.valueName>> ELSE l.keyPath

Hi32(d) == d[3] + 65536 * (IF d[4] >= 32768 THEN d[4] - 65536 ELSE d[4])
FitsInt32(d) == \/ Hi32(d) = 0 /\ d[2] < 32768
                \/ Hi32(d) = -1 /\ d[2] >= 32768

====
